---- MODULE Spec2Model ----
(***************************************************************************)
(* Sims 3 completionist tracker: the SQLite store (db_create.py), the      *)
(* progress service (app.py) and the goal loader with its icon resolver    *)
(* (load_lifetime_wishes.py).                                              *)
(*                                                                         *)
(* Text values are sequences of one-character strings, so that the string  *)
(* operations of the code (lower, replace, split, strip, in, comparison)   *)
(* are computed rather than assumed.  Dates are day numbers.               *)
(***************************************************************************)
EXTENDS Integers, Sequences, FiniteSets, TLC

\* ------------------------------------------------------------------ bounds
NumProcs == 2
MaxSaves == 2
MaxWishSeq == 2
MaxProgressSeq == 2
MaxRows == 2
MaxDay == 2
MaxIconFiles == 2

\* ------------------------------------------------------------- characters
\* The characters used, in ascending code-point order (SQLite's BINARY
\* collation and Python's str comparison both order by code point).
Ascii ==
  << "\t", "\n", "\f", "\r",
     " ", "\"", "'", ",", "-", ".", ":",
     "A", "B", "C", "D", "E", "F", "G", "H", "I", "J", "K", "L", "M",
     "N", "O", "P", "Q", "R", "S", "T", "U", "V", "W", "X", "Y", "Z",
     "_",
     "a", "b", "c", "d", "e", "f", "g", "h", "i", "j", "k", "l", "m",
     "n", "o", "p", "q", "r", "s", "t", "u", "v", "w", "x", "y", "z" >>

UpperCase == SubSeq(Ascii, 12, 37)

LowerCase == SubSeq(Ascii, 39, 64)

Ord(c) == CHOOSE i \in 1..Len(Ascii) : Ascii[i] = c

\* the characters str.strip() removes, among those used (str.isspace(): also
\* U+000B, U+001C-U+001F, U+0085, U+00A0 and the other Unicode spaces)
Whitespace == {"\t", "\n", "\f", "\r", " "}

\* str.lower() on one character
LowerOf ==
  [c \in {Ascii[i] : i \in 1..Len(Ascii)} |->
     IF \E k \in 1..26 : UpperCase[k] = c
       THEN LowerCase[CHOOSE k \in 1..26 : UpperCase[k] = c]
       ELSE c]

\* str.lower()
lower(s) == [i \in 1..Len(s) |-> LowerOf[s[i]]]

\* str.replace(old, new): non-overlapping occurrences, left to right, one pass
RECURSIVE replace(_, _, _)
replace(s, old, new) ==
  IF Len(s) < Len(old) THEN s
  ELSE IF SubSeq(s, 1, Len(old)) = old
    THEN new \o replace(SubSeq(s, Len(old) + 1, Len(s)), old, new)
    ELSE <<s[1]>> \o replace(Tail(s), old, new)

\* the `in` operator on strings: sub is a substring of s
contains(s, sub) ==
  \E i \in 1..(Len(s) - Len(sub) + 1) : SubSeq(s, i, i + Len(sub) - 1) = sub

\* str.split(sep) for a one-character separator: scan s from position i,
\* `part` being the piece collected since the last separator
RECURSIVE split_from(_, _, _, _)
split_from(s, sep, i, part) ==
  IF i > Len(s) THEN <<part>>
  ELSE IF s[i] = sep THEN <<part>> \o split_from(s, sep, i + 1, <<>>)
  ELSE split_from(s, sep, i + 1, Append(part, s[i]))

split(s, sep) == split_from(s, sep, 1, <<>>)

\* str.strip(): drop leading and trailing whitespace
RECURSIVE strip(_)
strip(s) ==
  IF s = <<>> THEN s
  ELSE IF s[1] \in Whitespace THEN strip(Tail(s))
  ELSE IF s[Len(s)] \in Whitespace THEN strip(SubSeq(s, 1, Len(s) - 1))
  ELSE s

\* s sorts strictly before t (code-point order, a proper prefix sorts first)
RECURSIVE StrLess(_, _)
StrLess(s, t) ==
  IF t = <<>> THEN FALSE
  ELSE IF s = <<>> THEN TRUE
  ELSE IF s[1] = t[1] THEN StrLess(Tail(s), Tail(t))
  ELSE Ord(s[1]) < Ord(t[1])

\* `x in list`
InList(x, list) == \E i \in 1..Len(list) : list[i] = x

\* --------------------------------------------------------- text constants
PLACEHOLDER == <<"P", "L", "A", "C", "E", "H", "O", "L", "D", "E", "R">>
Key_season_traveler == <<"s", "e", "a", "s", "o", "n", "_", "t", "r", "a", "v", "e", "l", "e", "r">>
File_seasoned_traveler == <<"s", "e", "a", "s", "o", "n", "e", "d", "_", "t", "r", "a", "v", "e", "l", "e", "r", ".", "p", "n", "g">>
Key_fashion_phenomenon == <<"f", "a", "s", "h", "i", "o", "n", "_", "p", "h", "e", "n", "o", "m", "e", "n", "o", "n">>
File_w_lifetime_stylist == <<"w", "_", "l", "i", "f", "e", "t", "i", "m", "e", "_", "s", "t", "y", "l", "i", "s", "t", ".", "p", "n", "g">>
Key_paranormal_profiteer == <<"p", "a", "r", "a", "n", "o", "r", "m", "a", "l", "_", "p", "r", "o", "f", "i", "t", "e", "e", "r">>
File_w_lifetime_ghosthunter == <<"w", "_", "l", "i", "f", "e", "t", "i", "m", "e", "_", "g", "h", "o", "s", "t", "h", "u", "n", "t", "e", "r", ".", "p", "n", "g">>
Key_nectar_making == <<"n", "e", "c", "t", "a", "r", "_", "m", "a", "k", "i", "n", "g">>
File_nectar_making == <<"n", "e", "c", "t", "a", "r", "_", "m", "a", "k", "i", "n", "g", ".", "p", "n", "g">>
MyMainSave == <<"M", "y", " ", "M", "a", "i", "n", " ", "S", "a", "v", "e">>
DefaultSaveDescription == <<"D", "e", "f", "a", "u", "l", "t", " ", "s", "a", "v", "e", " ", "f", "i", "l", "e", " ", "f", "o", "r", " ", "t", "r", "a", "c", "k", "i", "n", "g", " ", "p", "r", "o", "g", "r", "e", "s", "s">>
Name_FashionPhenomenon == <<"F", "a", "s", "h", "i", "o", "n", " ", "P", "h", "e", "n", "o", "m", "e", "n", "o", "n">>
Name_MasterChef == <<"M", "a", "s", "t", "e", "r", " ", "C", "h", "e", "f">>
Name_SeasonTraveler == <<"S", "e", "a", "s", "o", "n", " ", "T", "r", "a", "v", "e", "l", "e", "r">>
Name_TheTinkerer == <<"T", "h", "e", " ", "T", "i", "n", "k", "e", "r", "e", "r">>
Name_GoldDigger == <<"G", "o", "l", "d", " ", "D", "i", "g", "g", "e", "r">>
Name_HitMovieComposer == <<"H", "i", "t", "-", "M", "o", "v", "i", "e", " ", "C", "o", "m", "p", "o", "s", "e", "r">>
Name_JackOfAllTrades == <<"J", "a", "c", "k", " ", "o", "f", " ", "A", "l", "l", " ", "T", "r", "a", "d", "e", "s">>
Name_Heartbreaker == <<"\"", "H", "e", "a", "r", "t", "-", "B", "r", "e", "a", "k", "e", "r", "\"", ":", " ", "I", "t", "'", "s", " ", "L", "o", "v", "e">>
Name_MasterChefSpacedHyphen == <<"M", "a", "s", "t", "e", "r", " ", "-", " ", "C", "h", "e", "f">>
Name_GoldDiggerTwoSpaces == <<"G", "o", "l", "d", " ", " ", "D", "i", "g", "g", "e", "r">>
File_fashion_phenomenon == <<"f", "a", "s", "h", "i", "o", "n", "_", "p", "h", "e", "n", "o", "m", "e", "n", "o", "n", ".", "p", "n", "g">>
File_w_lifetime_fashion_phenomenon == <<"w", "_", "l", "i", "f", "e", "t", "i", "m", "e", "_", "f", "a", "s", "h", "i", "o", "n", "_", "p", "h", "e", "n", "o", "m", "e", "n", "o", "n", ".", "p", "n", "g">>
File_w_fashion_phenomenon == <<"w", "_", "f", "a", "s", "h", "i", "o", "n", "_", "p", "h", "e", "n", "o", "m", "e", "n", "o", "n", ".", "p", "n", "g">>
File_c_fashion == <<"c", "_", "f", "a", "s", "h", "i", "o", "n", ".", "p", "n", "g">>
File_chef_hat == <<"c", "h", "e", "f", "_", "h", "a", "t", ".", "p", "n", "g">>
File_w_master_chef == <<"w", "_", "m", "a", "s", "t", "e", "r", "_", "c", "h", "e", "f", ".", "p", "n", "g">>
File_the_end == <<"t", "h", "e", "_", "e", "n", "d", ".", "p", "n", "g">>
File_w_lifetime_gold_digger == <<"w", "_", "l", "i", "f", "e", "t", "i", "m", "e", "_", "g", "o", "l", "d", "_", "d", "i", "g", "g", "e", "r", ".", "p", "n", "g">>
File_trades == <<"t", "r", "a", "d", "e", "s", ".", "p", "n", "g">>
EmptyStr == <<>>

\* SQL NULL / Python None in a text column, and in a date column
NULL == <<"NULL">>

NoDate == 0

\* ---------------------------------------------------------- icon resolver
\* specific_mappings: normalized name -> known file
specific_mappings ==
  << [key |-> Key_season_traveler, file |-> File_seasoned_traveler],
     [key |-> Key_fashion_phenomenon, file |-> File_w_lifetime_stylist],
     [key |-> Key_paranormal_profiteer, file |-> File_w_lifetime_ghosthunter],
     [key |-> Key_nectar_making, file |-> File_nectar_making] >>

\* the chain of lower() and replace() calls that builds clean_name
clean_name(name) ==
  LET s0 == lower(name)
      s1 == replace(s0, <<"'">>, <<>>)
      s2 == replace(s1, <<"\"">>, <<>>)
      s3 == replace(s2, <<",">>, <<>>)
      s4 == replace(s3, <<":">>, <<>>)
      s5 == replace(s4, <<"-">>, <<"_">>)
      s6 == replace(s5, <<" ">>, <<"_">>)
  IN replace(s6, <<"_", "_">>, <<"_">>)

patterns_to_try(clean) ==
  << clean \o <<".", "p", "n", "g">>,
     <<"w", "_", "l", "i", "f", "e", "t", "i", "m", "e", "_">> \o clean
        \o <<".", "p", "n", "g">>,
     <<"w", "_">> \o clean \o <<".", "p", "n", "g">> >>

\* for pattern in patterns_to_try: if pattern in icon_files: return pattern
RECURSIVE try_patterns(_, _, _)
try_patterns(patterns, icon_files, i) ==
  IF i > Len(patterns) THEN NULL
  ELSE IF InList(patterns[i], icon_files) THEN patterns[i]
  ELSE try_patterns(patterns, icon_files, i + 1)

\* inner loop: for part in name_parts: if len(part) > 3 and part in icon_base
RECURSIVE any_part_matches(_, _, _)
any_part_matches(name_parts, icon_base, j) ==
  IF j > Len(name_parts) THEN FALSE
  ELSE IF Len(name_parts[j]) > 3 /\ contains(icon_base, name_parts[j]) THEN TRUE
  ELSE any_part_matches(name_parts, icon_base, j + 1)

\* outer loop: for icon_file in icon_files
RECURSIVE partial_match(_, _, _)
partial_match(name_parts, icon_files, i) ==
  IF i > Len(icon_files) THEN NULL
  ELSE LET icon_base == replace(icon_files[i], <<".", "p", "n", "g">>, <<>>)
       IN IF any_part_matches(name_parts, icon_base, 1) THEN icon_files[i]
          ELSE partial_match(name_parts, icon_files, i + 1)

\* mutant: the generated patterns are tried before the specific mappings
find_icon_file_patterns_first(name, dir) ==
  LET clean == clean_name(name)
      icon_files == dir.files
      mapped == {k \in 1..Len(specific_mappings) : specific_mappings[k].key = clean}
      by_pattern == try_patterns(patterns_to_try(clean), icon_files, 1)
      by_part == partial_match(split(clean, "_"), icon_files, 1)
  IN IF ~dir.exists THEN PLACEHOLDER
     ELSE IF by_pattern # NULL THEN by_pattern
     ELSE IF mapped # {}
             /\ InList(specific_mappings[CHOOSE k \in mapped : TRUE].file, icon_files)
       THEN specific_mappings[CHOOSE k \in mapped : TRUE].file
     ELSE IF by_part # NULL THEN by_part
     ELSE PLACEHOLDER

\* find_icon_file(name) against the directory icon_dir = [exists, files]
find_icon_file(name, dir) ==
  LET clean == clean_name(name)
      icon_files == dir.files
      mapped == {k \in 1..Len(specific_mappings) : specific_mappings[k].key = clean}
      by_pattern == try_patterns(patterns_to_try(clean), icon_files, 1)
      by_part == partial_match(split(clean, "_"), icon_files, 1)
  IN IF ~dir.exists THEN PLACEHOLDER
     ELSE IF mapped # {}
             /\ InList(specific_mappings[CHOOSE k \in mapped : TRUE].file, icon_files)
       THEN specific_mappings[CHOOSE k \in mapped : TRUE].file
     ELSE IF by_pattern # NULL THEN by_pattern
     ELSE IF by_part # NULL THEN by_part
     ELSE PLACEHOLDER

\* ------------------------------------------------------------------ state
VARIABLES
  db,        \* the committed database file: saves, lifetime_wishes,
             \* lifetime_wishes_progress, sqlite_sequence
  tx,        \* the database as seen by the connection holding the write
             \* lock (its uncommitted transaction); equals db when no one does
  writer,    \* the process whose connection holds the write lock, 0 if none
  pc,        \* per process: the statement it is about to execute
  local,     \* per process: the arguments of the call in progress
  csv_rows,  \* the data rows the loader last read from data/lifetime_wishes.csv
  icon_dir,  \* icons/lifetime_wishes: does it exist, and its *.png listing
  icon_call  \* the last find_icon_file call made on its own: name and result

vars == <<db, tx, writer, pc, local, csv_rows, icon_dir, icon_call>>

Procs == 1..NumProcs

NoCall == [op |-> "none"]

NoIconCall == [called |-> FALSE, name |-> EmptyStr, result |-> EmptyStr]

\* -------------------------------------------------------------- the store
\* sqlite3.connect() never issues PRAGMA foreign_keys = ON, and SQLite leaves
\* foreign-key enforcement off by default, so ON DELETE CASCADE is inert.
ForeignKeysEnabled == FALSE

\* create_database() where no database exists: the schema and the default
\* save (run on a database that exists: the create_database_* steps).  Of the
\* tables for future use, those the script drops are in `tables`.  The created_date
\* columns (DEFAULT CURRENT_DATE) and lifetime_wishes.description (always
\* NULL) are written once and read by no operation; they are left out.
create_database ==
  [ saves |-> { [ id |-> 1, name |-> MyMainSave,
                  description |-> DefaultSaveDescription,
                  is_active |-> TRUE ] },
    lifetime_wishes |-> {},
    lifetime_wishes_progress |-> {},
    sqlite_sequence |-> [ saves |-> 1, lifetime_wishes |-> 0,
                          lifetime_wishes_progress |-> 0 ],
    tables |-> { "saves", "lifetime_wishes", "lifetime_wishes_progress",
                 "collections", "skills", "careers" } ]

\* create_database, lines 24-27
tables_to_drop ==
  << "categories", "goals", "saves", "progress",
     "lifetime_wishes", "collections", "skills", "careers" >>

\* the tables whose rows are kept in the store
RowTables == {"saves", "lifetime_wishes"}

\* DROP TABLE IF EXISTS table: the rows go, and so does the table's row of
\* sqlite_sequence (ids start again from 1)
drop_table(d, table) ==
  IF table \notin d.tables THEN d
  ELSE IF table \in RowTables
    THEN [d EXCEPT !.tables = @ \ {table},
                   ![table] = {},
                   !.sqlite_sequence[table] = 0]
    ELSE [d EXCEPT !.tables = @ \ {table}]

\* CREATE TABLE table (...), the table not existing
create_table(d, table) == [d EXCEPT !.tables = @ \cup {table}]

\* mutant: the first UPDATE is missing
update_saves_clear_active_skipped(d) == d

\* UPDATE saves SET is_active = 0
update_saves_clear_active(d) ==
  [d EXCEPT !.saves = { [s EXCEPT !.is_active = FALSE] : s \in d.saves }]

\* UPDATE saves SET is_active = 1 WHERE id = ?
update_saves_set_active(d, save_id) ==
  [d EXCEPT !.saves =
     { IF s.id = save_id THEN [s EXCEPT !.is_active = TRUE] ELSE s : s \in d.saves }]

\* mutant: saves.name is not declared UNIQUE
saves_name_conflict_never(d, name) == FALSE

\* the UNIQUE constraint on saves.name
saves_name_conflict(d, name) == \E s \in d.saves : s.name = name

\* mutant: the new save is inserted with is_active set
insert_save_active(d, name, description) ==
  LET new_id == d.sqlite_sequence.saves + 1
  IN [d EXCEPT
        !.saves = @ \cup { [ id |-> new_id, name |-> name,
                             description |-> description,
                             is_active |-> TRUE ] },
        !.sqlite_sequence.saves = new_id]

\* INSERT INTO saves (name, description) VALUES (?, ?)
insert_save(d, name, description) ==
  LET new_id == d.sqlite_sequence.saves + 1
  IN [d EXCEPT
        !.saves = @ \cup { [ id |-> new_id, name |-> name,
                             description |-> description,
                             is_active |-> FALSE ] },
        !.sqlite_sequence.saves = new_id]

\* mutant: a plain INSERT into a table without the UNIQUE constraint
insert_progress_without_replace(d, save_id, lifetime_wish_id, completed, completed_date, notes) ==
  LET new_id == d.sqlite_sequence.lifetime_wishes_progress + 1
  IN [d EXCEPT
        !.lifetime_wishes_progress =
           @ \cup { [ id |-> new_id, save_id |-> save_id,
                      lifetime_wish_id |-> lifetime_wish_id,
                      completed |-> completed,
                      completed_date |-> completed_date,
                      notes |-> notes ] },
        !.sqlite_sequence.lifetime_wishes_progress = new_id]

\* mutant: an upsert that updates the row in place and keeps its notes when
\* the call brings none (ON CONFLICT DO UPDATE)
insert_or_update_progress(d, save_id, lifetime_wish_id, completed, completed_date, notes) ==
  LET new_id == d.sqlite_sequence.lifetime_wishes_progress + 1
      prior == { r \in d.lifetime_wishes_progress :
                   r.save_id = save_id /\ r.lifetime_wish_id = lifetime_wish_id }
      kept == d.lifetime_wishes_progress \ prior
  IN [d EXCEPT
        !.lifetime_wishes_progress =
           kept \cup { [ id |-> new_id, save_id |-> save_id,
                         lifetime_wish_id |-> lifetime_wish_id,
                         completed |-> completed,
                         completed_date |-> completed_date,
                         notes |-> IF notes = <<>> /\ prior # {}
                                     THEN (CHOOSE r \in prior : TRUE).notes
                                     ELSE notes ] },
        !.sqlite_sequence.lifetime_wishes_progress = new_id]

\* INSERT OR REPLACE INTO lifetime_wishes_progress (...) VALUES (?, ?, ?, ?, ?)
\* with UNIQUE(save_id, lifetime_wish_id): the conflicting row is deleted and
\* the new row gets a fresh AUTOINCREMENT id.
insert_or_replace_progress(d, save_id, lifetime_wish_id, completed, completed_date, notes) ==
  LET new_id == d.sqlite_sequence.lifetime_wishes_progress + 1
      kept == { r \in d.lifetime_wishes_progress :
                  ~(r.save_id = save_id /\ r.lifetime_wish_id = lifetime_wish_id) }
  IN [d EXCEPT
        !.lifetime_wishes_progress =
           kept \cup { [ id |-> new_id, save_id |-> save_id,
                         lifetime_wish_id |-> lifetime_wish_id,
                         completed |-> completed,
                         completed_date |-> completed_date,
                         notes |-> notes ] },
        !.sqlite_sequence.lifetime_wishes_progress = new_id]

\* mutant: the loader does not clear the table (merge instead of replace)
delete_lifetime_wishes_skipped(d) == d

\* DELETE FROM lifetime_wishes, with ON DELETE CASCADE on
\* lifetime_wishes_progress.lifetime_wish_id when foreign keys are enforced
delete_lifetime_wishes(d) ==
  [d EXCEPT
     !.lifetime_wishes = {},
     !.lifetime_wishes_progress =
        IF ForeignKeysEnabled
          THEN { r \in @ : \A w \in d.lifetime_wishes : w.id # r.lifetime_wish_id }
          ELSE @]

\* INSERT INTO lifetime_wishes (name, source, completion_type, icon_name)
insert_lifetime_wish(d, name, source, completion_type, icon_name) ==
  LET new_id == d.sqlite_sequence.lifetime_wishes + 1
  IN [d EXCEPT
        !.lifetime_wishes = @ \cup { [ id |-> new_id, name |-> name,
                                       source |-> source,
                                       completion_type |-> completion_type,
                                       icon_name |-> icon_name ] },
        !.sqlite_sequence.lifetime_wishes = new_id]

\* the `for row in reader` loop of load_lifetime_wishes
RECURSIVE load_rows(_, _, _, _)
load_rows(d, rows, i, dir) ==
  IF i > Len(rows) THEN d
  ELSE LET name == strip(rows[i].Name)
           source == strip(rows[i].Source)
           completion_type == strip(rows[i].Completion_Type)
           icon_name == find_icon_file(name, dir)
       IN load_rows(insert_lifetime_wish(d, name, source, completion_type, icon_name),
                    rows, i + 1, dir)

\* ----------------------------------------------------------------- queries
\* get_active_save(): SELECT * FROM saves WHERE is_active = 1 LIMIT 1
get_active_save(d) ==
  LET active == { s \in d.saves : s.is_active }
  IN IF active = {} THEN {}
     ELSE LET save == CHOOSE s \in active : \A o \in active : s.id <= o.id
          IN { [id |-> save.id, name |-> save.name, description |-> save.description] }

\* ORDER BY is_active DESC, name; names are unique
save_before(a, b) ==
  \/ a.is_active /\ ~ b.is_active
  \/ a.is_active = b.is_active /\ StrLess(a.name, b.name)

RECURSIVE order_by_active_name(_)
order_by_active_name(rows) ==
  IF rows = {} THEN <<>>
  ELSE LET first == CHOOSE r \in rows : \A o \in rows : ~ save_before(o, r)
       IN <<first>> \o order_by_active_name(rows \ {first})

\* get_saves(): SELECT * FROM saves ORDER BY is_active DESC, name
get_saves(d) == order_by_active_name(d.saves)

\* ORDER BY lw.source, lw.name (BINARY collation); rows that tie on both
\* keep table order
row_before(a, b) ==
  \/ StrLess(a.source, b.source)
  \/ a.source = b.source /\ StrLess(a.name, b.name)
  \/ a.source = b.source /\ a.name = b.name /\ a.id < b.id

RECURSIVE order_by_source_name(_)
order_by_source_name(rows) ==
  IF rows = {} THEN <<>>
  ELSE LET first == CHOOSE r \in rows : \A o \in rows : ~row_before(o, r)
       IN <<first>> \o order_by_source_name(rows \ {first})

\* mutant: the join condition lacks AND lwp.save_id = ?
get_lifetime_wishes_with_any_progress(d, save_id) ==
  LET on(lw, lwp) == lw.id = lwp.lifetime_wish_id
      matched == { [ id |-> lw.id, name |-> lw.name, source |-> lw.source,
                     completion_type |-> lw.completion_type,
                     icon_name |-> lw.icon_name,
                     completed |-> lwp.completed,
                     completed_date |-> lwp.completed_date,
                     notes |-> lwp.notes ] :
                   <<lw, lwp>> \in { z \in d.lifetime_wishes \X d.lifetime_wishes_progress :
                                       on(z[1], z[2]) } }
      unmatched == { [ id |-> lw.id, name |-> lw.name, source |-> lw.source,
                       completion_type |-> lw.completion_type,
                       icon_name |-> lw.icon_name,
                       completed |-> FALSE,
                       completed_date |-> NoDate,
                       notes |-> NULL ] :
                     lw \in { w \in d.lifetime_wishes :
                                \A lwp \in d.lifetime_wishes_progress : ~on(w, lwp) } }
  IN order_by_source_name(matched \cup unmatched)

\* get_lifetime_wishes_with_progress(save_id):
\* lifetime_wishes LEFT JOIN lifetime_wishes_progress
\*   ON lw.id = lwp.lifetime_wish_id AND lwp.save_id = ?
get_lifetime_wishes_with_progress(d, save_id) ==
  LET on(lw, lwp) == lw.id = lwp.lifetime_wish_id /\ lwp.save_id = save_id
      matched == { [ id |-> lw.id, name |-> lw.name, source |-> lw.source,
                     completion_type |-> lw.completion_type,
                     icon_name |-> lw.icon_name,
                     completed |-> lwp.completed,
                     completed_date |-> lwp.completed_date,
                     notes |-> lwp.notes ] :
                   <<lw, lwp>> \in { z \in d.lifetime_wishes \X d.lifetime_wishes_progress :
                                       on(z[1], z[2]) } }
      unmatched == { [ id |-> lw.id, name |-> lw.name, source |-> lw.source,
                       completion_type |-> lw.completion_type,
                       icon_name |-> lw.icon_name,
                       completed |-> FALSE,
                       completed_date |-> NoDate,
                       notes |-> NULL ] :
                     lw \in { w \in d.lifetime_wishes :
                                \A lwp \in d.lifetime_wishes_progress : ~on(w, lwp) } }
  IN order_by_source_name(matched \cup unmatched)

\* ------------------------------------------------------------------ inputs
Checkmark == <<"C", "h", "e", "c", "k", "m", "a", "r", "k">>
BaseGame == <<"B", "a", "s", "e", " ", "G", "a", "m", "e">>
Ambitions == <<"A", "m", "b", "i", "t", "i", "o", "n", "s">>
Name_ParanormalProfiteer == <<"P", "a", "r", "a", "n", "o", "r", "m", "a", "l", " ", "P", "r", "o", "f", "i", "t", "e", "e", "r">>
Alpha == <<"A", "l", "p", "h", "a">>
Beta == <<"B", "e", "t", "a">>

SaveIds == 1..MaxSaves

WishIds == 1..MaxWishSeq

SaveNames == {MyMainSave, Alpha, Beta}

Descriptions == {EmptyStr, <<"n", "e", "w">>}

NotesValues == {EmptyStr, <<"o", "k">>}

\* data rows of data/lifetime_wishes.csv as csv.DictReader yields them
CsvRows ==
  { [Name |-> Name_MasterChef, Source |-> <<"\t", " ">> \o BaseGame, Completion_Type |-> Checkmark \o <<"\n">>],
    [Name |-> Name_FashionPhenomenon \o <<" ">>, Source |-> BaseGame, Completion_Type |-> Checkmark],
    [Name |-> Name_ParanormalProfiteer, Source |-> Ambitions, Completion_Type |-> Checkmark] }

SeqsUpTo(S, n) == UNION { [1..k -> S] : k \in 0..n }

CsvFiles == SeqsUpTo(CsvRows, MaxRows)

\* readings of datetime.now()
Dates == 1..MaxDay

\* icons/lifetime_wishes as it stands when the loader runs
LoaderIconDir == [exists |-> TRUE, files |-> <<File_w_lifetime_stylist>>]

\* ------------------------------------------------------------------- steps
Init ==
  /\ db = create_database
  /\ tx = create_database
  /\ writer = 0
  /\ pc = [p \in Procs |-> "idle"]
  /\ local = [p \in Procs |-> NoCall]
  /\ csv_rows = <<>>
  /\ icon_dir = LoaderIconDir
  /\ icon_call = NoIconCall

\* mutant: the first writing statement does not wait for the write lock
begin_unguarded(p) == pc[p] = "idle"

\* A connection's first INSERT/UPDATE/DELETE opens a transaction and takes
\* the database's write lock; the statement waits while another connection
\* holds it (a wait that times out raises sqlite3.OperationalError and the
\* call has written nothing: no step). A statement on a table that does not
\* exist raises sqlite3.OperationalError before any lock is taken: no step.
begin(p) == pc[p] = "idle" /\ writer = 0

\* mutant: the connection is in autocommit mode, each statement is committed
\* as it is executed
execute_autocommit(p, next_tx, next_pc) ==
  /\ tx' = next_tx
  /\ db' = next_tx
  /\ writer' = p
  /\ pc' = [pc EXCEPT ![p] = next_pc]
  /\ UNCHANGED <<csv_rows, icon_dir, icon_call>>

\* cursor.execute() of a writing statement inside p's transaction: only the
\* connection's own view changes
execute(p, next_tx, next_pc) ==
  /\ tx' = next_tx
  /\ writer' = p
  /\ pc' = [pc EXCEPT ![p] = next_pc]
  /\ UNCHANGED <<db, csv_rows, icon_dir, icon_call>>

\* conn.commit(): the transaction becomes the database, the lock is released
commit(p) ==
  /\ writer = p
  /\ db' = tx
  /\ tx' = tx
  /\ writer' = 0
  /\ pc' = [pc EXCEPT ![p] = "idle"]
  /\ local' = [local EXCEPT ![p] = NoCall]
  /\ UNCHANGED <<csv_rows, icon_dir, icon_call>>

\* the connection is finalized with its transaction open (no commit was
\* reached): the transaction is rolled back, the lock is released
rollback(p) ==
  /\ writer = p
  /\ tx' = db
  /\ writer' = 0
  /\ pc' = [pc EXCEPT ![p] = "idle"]
  /\ local' = [local EXCEPT ![p] = NoCall]
  /\ UNCHANGED <<db, csv_rows, icon_dir, icon_call>>

\* set_active_save(save_id), line 94
set_active_save_clear(p, save_id) ==
  /\ begin(p)
  /\ "saves" \in db.tables
  /\ execute(p, update_saves_clear_active(db), "set_active_save_97")
  /\ local' = [local EXCEPT ![p] = [op |-> "set_active_save", save_id |-> save_id]]

\* set_active_save, line 97
set_active_save_set(p) ==
  /\ pc[p] = "set_active_save_97"
  /\ execute(p, update_saves_set_active(tx, local[p].save_id), "set_active_save_99")
  /\ UNCHANGED local

\* set_active_save, line 99
set_active_save_commit(p) ==
  /\ pc[p] = "set_active_save_99"
  /\ commit(p)

\* create_new_save(name, description), line 80: the INSERT either succeeds
\* or raises sqlite3.IntegrityError (UNIQUE constraint failed: saves.name)
create_new_save_insert(p, name, description) ==
  /\ begin(p)
  /\ "saves" \in db.tables
  /\ local' = [local EXCEPT ![p] = [op |-> "create_new_save", name |-> name]]
  /\ IF saves_name_conflict(db, name)
       THEN execute(p, db, "create_new_save_raise")
       ELSE /\ db.sqlite_sequence.saves < MaxSaves
            /\ execute(p, insert_save(db, name, description), "create_new_save_85")

\* create_new_save, line 85
create_new_save_commit(p) ==
  /\ pc[p] = "create_new_save_85"
  /\ commit(p)

\* the IntegrityError leaves create_new_save before commit and close
create_new_save_raise(p) ==
  /\ pc[p] = "create_new_save_raise"
  /\ rollback(p)

\* mutant: the date is stored whether or not the goal is completed
completed_date_always(completed, now) == now

\* completed_date = datetime.now().strftime('%Y-%m-%d') if completed else None
completed_date_of(completed, now) == IF completed THEN now ELSE NoDate

\* update_lifetime_wish_progress(save_id, lifetime_wish_id, completed, notes)
\* called when datetime.now() reads `now`, lines 61-66: the INSERT OR REPLACE
\* is executed in the connection's transaction
update_lifetime_wish_progress_insert(p, save_id, lifetime_wish_id, completed, notes, now) ==
  LET completed_date == completed_date_of(completed, now)
  IN /\ begin(p)
     /\ db.sqlite_sequence.lifetime_wishes_progress < MaxProgressSeq
     /\ execute(p, insert_or_replace_progress(db, save_id, lifetime_wish_id,
                                              completed, completed_date, notes),
                 "update_lifetime_wish_progress_72")
     /\ local' = [local EXCEPT ![p] =
                    [op |-> "update_lifetime_wish_progress", save_id |-> save_id,
                     lifetime_wish_id |-> lifetime_wish_id,
                     completed |-> completed, notes |-> notes]]

\* update_lifetime_wish_progress, line 72
update_lifetime_wish_progress_commit(p) ==
  /\ pc[p] = "update_lifetime_wish_progress_72"
  /\ commit(p)

\* load_lifetime_wishes(), line 82
load_lifetime_wishes_delete(p) ==
  /\ begin(p)
  /\ "lifetime_wishes" \in db.tables
  /\ execute(p, delete_lifetime_wishes(db), "load_lifetime_wishes_85")
  /\ local' = [local EXCEPT ![p] = [op |-> "load_lifetime_wishes"]]

\* load_lifetime_wishes, lines 85-87: data/lifetime_wishes.csv does not exist
load_lifetime_wishes_not_found(p) ==
  /\ pc[p] = "load_lifetime_wishes_85"
  /\ execute(p, tx, "load_lifetime_wishes_87")
  /\ UNCHANGED local

\* load_lifetime_wishes has returned at line 87 without commit or close
load_lifetime_wishes_return(p) ==
  /\ pc[p] = "load_lifetime_wishes_87"
  /\ rollback(p)

\* load_lifetime_wishes, lines 93-114: the file exists and holds `rows`,
\* inserted one by one in the transaction the DELETE opened
load_lifetime_wishes_insert(p, rows) ==
  /\ pc[p] = "load_lifetime_wishes_85"
  /\ writer = p
  /\ tx.sqlite_sequence.lifetime_wishes + Len(rows) <= MaxWishSeq
  /\ csv_rows' = rows
  /\ tx' = load_rows(tx, rows, 1, icon_dir)
  /\ pc' = [pc EXCEPT ![p] = "load_lifetime_wishes_117"]
  /\ UNCHANGED <<db, writer, local, icon_dir, icon_call>>

\* load_lifetime_wishes, line 117 (what follows reads and prints)
load_lifetime_wishes_commit(p) ==
  /\ pc[p] = "load_lifetime_wishes_117"
  /\ commit(p)

\* create_database() on a database that exists, lines 12-29.  Its statements
\* are DDL: each is committed as it is executed.
create_database_start(p) ==
  /\ pc[p] = "idle"
  /\ pc' = [pc EXCEPT ![p] = "create_database_30"]
  /\ local' = [local EXCEPT ![p] = [op |-> "create_database", i |-> 1]]
  /\ UNCHANGED <<db, tx, writer, csv_rows, icon_dir, icon_call>>

\* create_database, line 30: the i-th DROP TABLE IF EXISTS of the loop.  One
\* that finds no table does nothing and takes no lock.
create_database_drop(p) ==
  LET i == local[p].i
  IN /\ pc[p] = "create_database_30"
     /\ IF tables_to_drop[i] \in db.tables
          THEN /\ writer = 0
               /\ db' = drop_table(db, tables_to_drop[i])
               /\ tx' = db'
          ELSE UNCHANGED <<db, tx>>
     /\ local' = [local EXCEPT ![p].i = i + 1]
     /\ pc' = [pc EXCEPT ![p] = IF i = Len(tables_to_drop)
                                  THEN "create_database_33"
                                  ELSE "create_database_30"]
     /\ UNCHANGED <<writer, csv_rows, icon_dir, icon_call>>

\* create_database, line 33: CREATE TABLE saves
create_database_create_saves(p) ==
  /\ pc[p] = "create_database_33"
  /\ "saves" \notin db.tables
  /\ writer = 0
  /\ db' = create_table(db, "saves")
  /\ tx' = db'
  /\ pc' = [pc EXCEPT ![p] = "create_database_44"]
  /\ UNCHANGED <<writer, local, csv_rows, icon_dir, icon_call>>

\* create_database, line 44: CREATE TABLE lifetime_wishes
create_database_create_lifetime_wishes(p) ==
  /\ pc[p] = "create_database_44"
  /\ "lifetime_wishes" \notin db.tables
  /\ writer = 0
  /\ db' = create_table(db, "lifetime_wishes")
  /\ tx' = db'
  /\ pc' = [pc EXCEPT ![p] = "create_database_57"]
  /\ UNCHANGED <<writer, local, csv_rows, icon_dir, icon_call>>

\* the statement create_database is about to execute changes the schema
create_database_writes(p) ==
  \/ pc[p] = "create_database_30" /\ tables_to_drop[local[p].i] \in db.tables
  \/ pc[p] = "create_database_33" /\ "saves" \notin db.tables
  \/ pc[p] = "create_database_44" /\ "lifetime_wishes" \notin db.tables

\* a CREATE TABLE of lines 33-69 finds its table: sqlite3.OperationalError
\* (table ... already exists) ends the script, whoever holds the write lock.
\* lifetime_wishes_progress (line 57) is in no DROP of the loop, so that the
\* script gets no further on a database that exists: no default save is
\* inserted.
create_database_raise(p) ==
  /\ \/ pc[p] = "create_database_33" /\ "saves" \in db.tables
     \/ pc[p] = "create_database_44" /\ "lifetime_wishes" \in db.tables
     \/ pc[p] = "create_database_57" /\ "lifetime_wishes_progress" \in db.tables
  /\ pc' = [pc EXCEPT ![p] = "idle"]
  /\ local' = [local EXCEPT ![p] = NoCall]
  /\ UNCHANGED <<db, tx, writer, csv_rows, icon_dir, icon_call>>

\* a DROP or CREATE waits for the write lock until the busy timeout:
\* sqlite3.OperationalError (database is locked) ends the script, what it
\* has dropped or created stays
create_database_locked(p) ==
  /\ create_database_writes(p)
  /\ writer # 0
  /\ pc' = [pc EXCEPT ![p] = "idle"]
  /\ local' = [local EXCEPT ![p] = NoCall]
  /\ UNCHANGED <<db, tx, writer, csv_rows, icon_dir, icon_call>>

DatabaseSteps ==
  \/ \E p \in Procs : create_database_start(p)
  \/ \E p \in Procs : create_database_drop(p)
  \/ \E p \in Procs : create_database_create_saves(p)
  \/ \E p \in Procs : create_database_create_lifetime_wishes(p)
  \/ \E p \in Procs : create_database_raise(p)
  \/ \E p \in Procs : create_database_locked(p)

SaveSteps ==
  \/ \E p \in Procs, save_id \in SaveIds : set_active_save_clear(p, save_id)
  \/ \E p \in Procs : set_active_save_set(p)
  \/ \E p \in Procs : set_active_save_commit(p)
  \/ \E p \in Procs, name \in SaveNames, description \in Descriptions :
       create_new_save_insert(p, name, description)
  \/ \E p \in Procs : create_new_save_commit(p)
  \/ \E p \in Procs : create_new_save_raise(p)

ProgressSteps ==
  \/ \E p \in Procs, save_id \in SaveIds, lifetime_wish_id \in WishIds,
        completed \in BOOLEAN, notes \in NotesValues, now \in Dates :
       update_lifetime_wish_progress_insert(p, save_id, lifetime_wish_id,
                                            completed, notes, now)
  \/ \E p \in Procs : update_lifetime_wish_progress_commit(p)

LoaderSteps ==
  \/ \E p \in Procs : load_lifetime_wishes_delete(p)
  \/ \E p \in Procs : load_lifetime_wishes_not_found(p)
  \/ \E p \in Procs : load_lifetime_wishes_return(p)
  \/ \E p \in Procs, rows \in CsvFiles : load_lifetime_wishes_insert(p, rows)
  \/ \E p \in Procs : load_lifetime_wishes_commit(p)


\* the save operations of the progress service on their own
SpecSaves == Init /\ [][SaveSteps]_vars

\* progress upserts on their own
SpecProgress == Init /\ [][ProgressSteps]_vars

\* goal reloads, with the progress upserts of a single day
LoaderNext ==
  \/ LoaderSteps
  \/ \E p \in Procs, save_id \in SaveIds, lifetime_wish_id \in WishIds,
        completed \in BOOLEAN, notes \in NotesValues :
       update_lifetime_wish_progress_insert(p, save_id, lifetime_wish_id,
                                            completed, notes, 1)
  \/ \E p \in Procs : update_lifetime_wish_progress_commit(p)

SpecLoader == Init /\ [][LoaderNext]_vars

\* ------------------------------------------- the icon resolver on its own
IconNames ==
  { Name_FashionPhenomenon, Name_MasterChef, Name_SeasonTraveler,
    Name_TheTinkerer, Name_GoldDigger, Name_HitMovieComposer,
    Name_JackOfAllTrades, Name_Heartbreaker, Name_MasterChefSpacedHyphen,
    Name_GoldDiggerTwoSpaces }

IconFileNames ==
  { File_w_lifetime_stylist, File_seasoned_traveler, File_fashion_phenomenon,
    File_w_lifetime_fashion_phenomenon, File_w_fashion_phenomenon,
    File_c_fashion, File_chef_hat, File_w_master_chef, File_the_end,
    File_w_lifetime_gold_digger, File_trades }

\* glob.glob() listings: any order, no file twice
Listings ==
  { l \in SeqsUpTo(IconFileNames, MaxIconFiles) :
      \A i, j \in 1..Len(l) : i # j => l[i] # l[j] }

IconDirs ==
  { [exists |-> FALSE, files |-> <<>>] } \cup
  { [exists |-> TRUE, files |-> l] : l \in Listings }

IconInit ==
  /\ db = create_database
  /\ tx = create_database
  /\ writer = 0
  /\ pc = [p \in Procs |-> "idle"]
  /\ local = [p \in Procs |-> NoCall]
  /\ csv_rows = <<>>
  /\ icon_dir \in IconDirs
  /\ icon_call = NoIconCall

\* a call find_icon_file(name)
resolve_icon(name) ==
  /\ icon_call' = [called |-> TRUE, name |-> name,
                   result |-> find_icon_file(name, icon_dir)]
  /\ UNCHANGED <<db, tx, writer, pc, local, csv_rows, icon_dir>>

IconNext == \E name \in IconNames : resolve_icon(name)

SpecIcon == IconInit /\ [][IconNext]_vars

\* ------------------------------------------------------------------ claims
ActiveSaves(d) == { s \in d.saves : s.is_active }

\* C1: after any sequence of set_active_save calls, with any ids, at most one
\* save in the database has is_active = true.
C1_AtMostOneActive == Cardinality(ActiveSaves(db)) <= 1

\* C1 witness: an activation has moved the active flag from save 1 to save 2.
C1_Witness ==
  /\ \E s \in db.saves : s.id = 2 /\ s.is_active
  /\ \E s \in db.saves : s.id = 1 /\ ~s.is_active

\* the step in which p's load_lifetime_wishes, having found its input file
\* and inserted the rows, commits
ReloadCommitted(p) == pc[p] = "load_lifetime_wishes_117" /\ pc'[p] = "idle"

\* C2 (as claimed): a reload that finds its input file and commits leaves no
\* lifetime_wishes_progress row that was in the database before it.
C2_ReloadClearsProgress ==
  [][\A p \in Procs :
       ReloadCommitted(p) =>
         db'.lifetime_wishes_progress \cap db.lifetime_wishes_progress = {}]_vars

\* C3 (as claimed): when the loader gives up because the input file is
\* missing it has deleted nothing: the tables its connection sees are the
\* tables of the database.
C3_AbortsBeforeDeleting ==
  \A p \in Procs :
    pc[p] = "load_lifetime_wishes_87" =>
      /\ tx.lifetime_wishes = db.lifetime_wishes
      /\ tx.lifetime_wishes_progress = db.lifetime_wishes_progress

\* the rows of progress table t for one (save, goal) pair
RowsFor(t, save_id, lifetime_wish_id) ==
  { r \in t : r.save_id = save_id /\ r.lifetime_wish_id = lifetime_wish_id }

\* C4: every progress row has completed_date set exactly when completed is
\* true; an upsert with completed = true stores the date of the call, and an
\* upsert with completed = false stores no date, whatever row was there.
C4_DateIffCompleted ==
  /\ [](\A r \in db.lifetime_wishes_progress :
          r.completed <=> r.completed_date # NoDate)
  /\ [][\A p \in Procs, s \in SaveIds, w \in WishIds, c \in BOOLEAN,
          n \in NotesValues, now \in Dates :
          update_lifetime_wish_progress_insert(p, s, w, c, n, now) =>
            /\ RowsFor(tx'.lifetime_wishes_progress, s, w) # {}
            /\ \A r \in RowsFor(tx'.lifetime_wishes_progress, s, w) :
                 /\ r.completed = c
                 /\ c => r.completed_date = now
                 /\ ~c => r.completed_date = NoDate]_vars
  /\ [][\A p \in Procs :
          update_lifetime_wish_progress_commit(p) =>
            db'.lifetime_wishes_progress = tx.lifetime_wishes_progress]_vars

\* C4 witness: an upsert with completed = false has replaced the earlier row
\* of its pair, and the row left holds no date.
C4_Witness ==
  /\ db.sqlite_sequence.lifetime_wishes_progress = 2
  /\ \E r \in db.lifetime_wishes_progress :
       r.id = 2 /\ ~r.completed /\ r.completed_date = NoDate
  /\ Cardinality(db.lifetime_wishes_progress) = 1

\* C5: the progress table never holds two rows for one (save_id,
\* lifetime_wish_id); an upsert for a pair that has a row replaces it, and
\* the row left for the pair carries the values of that call.
C5_OneRowPerPair ==
  /\ [](\A r1, r2 \in db.lifetime_wishes_progress :
          (r1.save_id = r2.save_id /\ r1.lifetime_wish_id = r2.lifetime_wish_id)
            => r1 = r2)
  /\ [][\A p \in Procs :
          update_lifetime_wish_progress_commit(p) =>
            LET s == local[p].save_id
                w == local[p].lifetime_wish_id
            IN /\ Cardinality(RowsFor(db'.lifetime_wishes_progress, s, w)) = 1
               /\ \E r \in RowsFor(db'.lifetime_wishes_progress, s, w) :
                    r.completed = local[p].completed /\ r.notes = local[p].notes
               /\ Cardinality(db'.lifetime_wishes_progress) =
                    Cardinality(db.lifetime_wishes_progress)
                      + (IF RowsFor(db.lifetime_wishes_progress, s, w) = {}
                           THEN 1 ELSE 0)]_vars

\* C5 witness: two upserts were made and one row is left, with the notes of
\* the second call.
C5_Witness ==
  /\ db.sqlite_sequence.lifetime_wishes_progress = 2
  /\ Cardinality(db.lifetime_wishes_progress) = 1
  /\ \E r \in db.lifetime_wishes_progress :
       r.id = 2 /\ r.completed /\ r.notes = <<"o", "k">>

\* C7: a reload that finds its input file leaves exactly one lifetime_wishes
\* row per data row of the file, in file order (ascending id), whatever the
\* table held before.
C7_ReloadReplacesGoals ==
  [][\A p \in Procs :
       ReloadCommitted(p) =>
         /\ Cardinality(db'.lifetime_wishes) = Len(csv_rows')
         /\ \A i \in 1..Len(csv_rows') :
              \E g \in db'.lifetime_wishes :
                /\ Cardinality({ h \in db'.lifetime_wishes : h.id < g.id }) = i - 1
                /\ g.name = strip(csv_rows'[i].Name)
                /\ g.source = strip(csv_rows'[i].Source)
                /\ g.completion_type = strip(csv_rows'[i].Completion_Type)]_vars

\* C7 witness: the table holds one goal, with id 2: a reload replaced a table
\* that already held a goal.
C7_Witness ==
  /\ Cardinality(db.lifetime_wishes) = 1
  /\ \E g \in db.lifetime_wishes : g.id = 2 /\ g.name = Name_FashionPhenomenon

\* C6: create_new_save with a name that a save already has fails with the
\* constraint error and writes nothing: the saves table is unchanged and
\* still holds exactly one row with that name; save names are pairwise
\* distinct in every state.
C6_DuplicateNameRejected ==
  /\ [](\A s1, s2 \in db.saves : s1.name = s2.name => s1 = s2)
  /\ [][\A p \in Procs, name \in SaveNames, description \in Descriptions :
          (create_new_save_insert(p, name, description)
             /\ \E s \in db.saves : s.name = name)
            => /\ pc'[p] = "create_new_save_raise"
               /\ tx'.saves = db.saves
               /\ db' = db]_vars
  /\ [][\A p \in Procs :
          pc[p] = "create_new_save_raise" =>
            /\ db'.saves = db.saves
            /\ Cardinality({ s \in db'.saves : s.name = local[p].name }) = 1]_vars

\* C6 witness: a create_new_save for the name of the second save has raised.
C6_Witness ==
  \E p \in Procs :
    /\ pc[p] = "create_new_save_raise"
    /\ local[p].name = Alpha
    /\ \E s \in db.saves : s.id = 2 /\ s.name = Alpha

\* the active flags the saves table t has once save_id was activated
Activated(t, save_id) ==
  { [s EXCEPT !.is_active = (s.id = save_id)] : s \in t }

\* C9: set_active_save is one transaction. The database never shows the
\* state between its two UPDATEs: the saves table changes only when a call
\* commits, and the commit of set_active_save(save_id) takes it in one step
\* to the table in which save_id, if it exists, is the only active save.
C9_ActivateAtomic ==
  [][/\ db'.saves # db.saves =>
          \E p \in Procs : pc[p] \in {"set_active_save_99", "create_new_save_85"}
                           /\ pc'[p] = "idle"
     /\ \A p \in Procs :
          (pc[p] = "set_active_save_99" /\ pc'[p] = "idle") =>
            /\ db'.saves = Activated(db.saves, local[p].save_id)
            /\ (\E s \in db.saves : s.id = local[p].save_id) =>
                 { s.id : s \in ActiveSaves(db') } = {local[p].save_id}]_vars

\* C9 witness: a set_active_save stands between its two UPDATEs, its
\* connection sees no active save, and the database still shows one.
C9_Witness ==
  \E p \in Procs :
    /\ pc[p] = "set_active_save_97"
    /\ ActiveSaves(tx) = {}
    /\ ActiveSaves(db) # {}
    /\ Cardinality(db.saves) = 2

\* the files of a listing
Files(listing) == { listing[i] : i \in 1..Len(listing) }

\* a file name without its .png extension
BaseName(file) == SubSeq(file, 1, Len(file) - 4)

\* rule 3 for one candidate: its base name contains an underscore-separated
\* part of the normalized name that is longer than 3 characters
PartialCandidate(clean, file) ==
  LET parts == split(clean, "_")
  IN \E j \in 1..Len(parts) : Len(parts[j]) > 3 /\ contains(BaseName(file), parts[j])

\* C8: find_icon_file returns the mapped file of the normalized name when
\* that file is a candidate; else the first candidate among <name>.png,
\* w_lifetime_<name>.png, w_<name>.png; else the first candidate in listing
\* order whose base name contains a part of the name longer than 3
\* characters; else PLACEHOLDER. A rule is used only when no earlier rule
\* matches.
C8_IconPriority ==
  icon_call.called =>
    LET clean == clean_name(icon_call.name)
        result == icon_call.result
        listing == icon_dir.files
        mapped == { specific_mappings[k].file :
                      k \in { m \in 1..Len(specific_mappings) :
                                specific_mappings[m].key = clean } }
        rule1 == mapped \cap Files(listing) # {}
        name_png == clean \o <<".", "p", "n", "g">>
        w_lifetime_png == <<"w", "_", "l", "i", "f", "e", "t", "i", "m", "e", "_">> \o name_png
        w_png == <<"w", "_">> \o name_png
        rule2 == {name_png, w_lifetime_png, w_png} \cap Files(listing) # {}
        hits == { i \in 1..Len(listing) : PartialCandidate(clean, listing[i]) }
        rule3 == hits # {}
    IN /\ rule1 => result \in mapped
       /\ (~rule1 /\ rule2) =>
            /\ name_png \in Files(listing) => result = name_png
            /\ (name_png \notin Files(listing) /\ w_lifetime_png \in Files(listing))
                 => result = w_lifetime_png
            /\ (name_png \notin Files(listing) /\ w_lifetime_png \notin Files(listing))
                 => result = w_png
       /\ (~rule1 /\ ~rule2 /\ rule3) =>
            \E i \in hits : result = listing[i] /\ \A j \in hits : i <= j
       /\ (~rule1 /\ ~rule2 /\ ~rule3) => result = PLACEHOLDER

\* C8 witness: the mapping of fashion_phenomenon was used although
\* fashion_phenomenon.png, the first pattern, was a candidate too.
C8_Witness ==
  /\ icon_call.called
  /\ icon_call.name = Name_FashionPhenomenon
  /\ icon_call.result = File_w_lifetime_stylist
  /\ File_fashion_phenomenon \in Files(icon_dir.files)

\* a sorts before b, or level with it, by (source, name)
SourceNameLeq(a, b) ==
  \/ StrLess(a.source, b.source)
  \/ a.source = b.source /\ (StrLess(a.name, b.name) \/ a.name = b.name)

\* get_lifetime_wishes_with_progress(save_id), for every save_id, returns
\* every goal exactly once, in (source, name) order; a goal with a progress
\* row of save_id carries that row's completed, completed_date and notes, a
\* goal without one carries completed = false, no date and default_notes;
\* the progress rows of other saves play no part.
ListsGoalsWithProgress(default_notes) ==
  \A save_id \in SaveIds :
    LET result == get_lifetime_wishes_with_progress(db, save_id)
    IN /\ Len(result) = Cardinality(db.lifetime_wishes)
       /\ \A w \in db.lifetime_wishes :
            \E i \in 1..Len(result) :
              /\ result[i].id = w.id
              /\ result[i].name = w.name
              /\ result[i].source = w.source
              /\ result[i].completion_type = w.completion_type
              /\ result[i].icon_name = w.icon_name
       /\ \A i, j \in 1..Len(result) :
            /\ (i # j) => result[i].id # result[j].id
            /\ (i < j) => SourceNameLeq(result[i], result[j])
       /\ \A i \in 1..Len(result) :
            LET own == RowsFor(db.lifetime_wishes_progress, save_id, result[i].id)
            IN IF own = {}
                 THEN /\ result[i].completed = FALSE
                      /\ result[i].completed_date = NoDate
                      /\ result[i].notes = default_notes
                 ELSE \E r \in own :
                        /\ result[i].completed = r.completed
                        /\ result[i].completed_date = r.completed_date
                        /\ result[i].notes = r.notes

\* C10 as stated: the listing returns every goal exactly once, in (source,
\* name) order, with the values of the save's progress row where there is
\* one, and for a goal without one the defaults completed = false, notes
\* empty (the empty string) and no date.
C10_DefaultNotesEmpty == ListsGoalsWithProgress(EmptyStr)

\* C10 amended: as stated, except that a goal without a progress row of the
\* save carries no notes at all (NULL, as it carries no date), not the empty
\* string: the query selects lwp.notes as the join leaves it.
C10_ListGoalsWithProgress == ListsGoalsWithProgress(NULL)

\* C10 witness: two goals listed against their insertion order; the first
\* carries save 1's completed row, the second has a row of save 2 only and is
\* listed for save 1 with the defaults.
C10_Witness ==
  LET result == get_lifetime_wishes_with_progress(db, 1)
  IN /\ Len(result) = 2
     /\ result[1].id > result[2].id
     /\ result[1].completed /\ result[1].notes = <<"o", "k">>
     /\ RowsFor(db.lifetime_wishes_progress, 1, result[2].id) = {}
     /\ \E r \in RowsFor(db.lifetime_wishes_progress, 2, result[2].id) : r.completed
     /\ result[2].completed = FALSE /\ result[2].notes = NULL

\* ---------------------------------------------------------------- C11
ActivationPcs == {"set_active_save_97", "set_active_save_99"}

\* C11 as stated: set_active_save is not guarded against a concurrent
\* set_active_save, so that the clear-all and set-target steps of two
\* processes interleave (and leave more than one save active): while one
\* process is between its clear-all and its commit, the clear-all of another,
\* idle, process on an id of its own can run.
C11_ActivateUnguarded ==
  \A p \in Procs : \A q \in Procs \ {p} :
    (pc[p] \in ActivationPcs /\ pc[q] = "idle")
      => \E save_id \in SaveIds \ {local[p].save_id} :
           ENABLED set_active_save_clear(q, save_id)

\* C11 amended: with two processes running set_active_save on different save
\* ids, the database's write lock keeps the second process's clear-all from
\* running until the first has committed: never are two processes between
\* clear-all and commit, the view of the process that is has at most one
\* active save, and no committed state has more than one active save.
C11_ActivationsSerialised ==
  /\ \A p \in Procs : \A q \in Procs \ {p} :
       pc[p] \in ActivationPcs => pc[q] \notin ActivationPcs
  /\ \A p \in Procs :
       pc[p] \in ActivationPcs
         => /\ writer = p
            /\ Cardinality(ActiveSaves(tx)) <= 1
            /\ \A q \in Procs \ {p} : \A save_id \in SaveIds :
                 ~ ENABLED set_active_save_clear(q, save_id)
  /\ Cardinality(ActiveSaves(db)) <= 1

\* witness: save 2 was activated and committed, and process 2 has now run
\* both steps of activating save 1, not yet committed, while process 1 is idle
C11_Witness ==
  /\ pc[2] = "set_active_save_99"
  /\ pc[1] = "idle"
  /\ local[2].save_id = 1
  /\ { s.id : s \in ActiveSaves(db) } = {2}
  /\ { s.id : s \in ActiveSaves(tx) } = {1}

\* ---------------------------------------------------------------- C12
StrippedChars == {"'", "\"", ",", ":", "-", " "}

Chars(s) == { s[i] : i \in 1..Len(s) }

\* C12: for every input name, the normalized name is lowercase, contains no
\* apostrophe, double quote, comma, colon, hyphen or space, and contains no
\* two consecutive underscores.
C12_NormalizedName ==
  icon_call.called =>
    LET clean == clean_name(icon_call.name)
    IN /\ Chars(clean) \cap Chars(UpperCase) = {}
       /\ Chars(clean) \cap StrippedChars = {}
       /\ ~ contains(clean, <<"_", "_">>)

\* ---------------------------------------------------------------- C13
\* lifetime_wishes.csv as it stands while the pages are in use: the base
\* game's goal, then those of an expansion
PageCsvFiles ==
  { rows \in CsvFiles :
      /\ Len(rows) > 0
      /\ rows[1].Name = Name_MasterChef
      /\ \A i \in 2..Len(rows) : rows[i].Name = Name_ParanormalProfiteer }

\* The operations as the pages of main() reach them: "Activate" buttons are
\* drawn for the rows of get_saves() (lines 199-209), the progress widgets for
\* a save that exists and a goal that was listed (lines 233-304), which
\* another session may have reloaded since the page was drawn. What is
\* written to the progress rows and the save descriptions does not bear on
\* is_active and is held fixed.
UserNext ==
  \/ \E p \in Procs : \E save_id \in { s.id : s \in db.saves } :
       set_active_save_clear(p, save_id)
  \/ \E p \in Procs : set_active_save_set(p)
  \/ \E p \in Procs : set_active_save_commit(p)
  \/ \E p \in Procs, name \in SaveNames : create_new_save_insert(p, name, EmptyStr)
  \/ \E p \in Procs : create_new_save_commit(p)
  \/ \E p \in Procs : create_new_save_raise(p)
  \/ \E p \in Procs : \E save_id \in { s.id : s \in db.saves } :
       \E lifetime_wish_id \in 1..db.sqlite_sequence.lifetime_wishes :
         update_lifetime_wish_progress_insert(p, save_id, lifetime_wish_id,
                                              TRUE, EmptyStr, 1)
  \/ \E p \in Procs : update_lifetime_wish_progress_commit(p)
  \/ \E p \in Procs : load_lifetime_wishes_delete(p)
  \/ \E p \in Procs : load_lifetime_wishes_not_found(p)
  \/ \E p \in Procs : load_lifetime_wishes_return(p)
  \/ \E p \in Procs, rows \in PageCsvFiles : load_lifetime_wishes_insert(p, rows)
  \/ \E p \in Procs : load_lifetime_wishes_commit(p)

SpecUser == Init /\ [][UserNext]_vars

SaveIdsOf(d) == { s.id : s \in d.saves }

ActivationCommitted == \E p \in Procs : pc[p] = "set_active_save_99" /\ pc'[p] = "idle"

SaveCreated == \E p \in Procs : pc[p] = "create_new_save_85" /\ pc'[p] = "idle"

\* C13: starting from the store of create_database, after any sequence of
\* create_new_save, set_active_save on the id of an existing save,
\* update_lifetime_wish_progress and load_lifetime_wishes, exactly one save is
\* active; create_new_save inserts the new save inactive and changes no other
\* save's is_active, and no operation other than set_active_save changes
\* is_active.
C13_ExactlyOneActive ==
  /\ [](Cardinality(ActiveSaves(db)) = 1)
  /\ [][ /\ SaveIdsOf(db) \subseteq SaveIdsOf(db')
         /\ \A s \in db.saves : \A t \in db'.saves :
              (s.id = t.id /\ s.is_active # t.is_active) => ActivationCommitted
         /\ \A t \in db'.saves :
              t.id \notin SaveIdsOf(db) => (~ t.is_active /\ SaveCreated)
         /\ SaveCreated =>
              /\ Cardinality(db'.saves) = Cardinality(db.saves) + 1
              /\ ActiveSaves(db') = ActiveSaves(db) ]_vars

\* witness: every kind of operation has acted: a second save was created and
\* then activated, goals were loaded and a progress row written
C13_Witness ==
  /\ Cardinality(db.saves) = 2
  /\ { s.id : s \in ActiveSaves(db) } = {2}
  /\ db.lifetime_wishes # {}
  /\ db.lifetime_wishes_progress # {}
  /\ \A p \in Procs : pc[p] = "idle"

\* ---------------------------------------------------------------- C14
\* def update_lifetime_wish_progress(save_id, lifetime_wish_id, completed, notes="")
DefaultNotes == EmptyStr

\* main(), lines 145-149: get_active_save() (with no active save the page
\* ends there: no step)
main_get_active_save(p) ==
  /\ pc[p] = "idle"
  /\ "saves" \in db.tables
  /\ get_active_save(db) # {}
  /\ LET active_save == CHOOSE s \in get_active_save(db) : TRUE
     IN local' = [local EXCEPT ![p] = [op |-> "main", save_id |-> active_save.id]]
  /\ pc' = [pc EXCEPT ![p] = "main_160"]
  /\ UNCHANGED <<db, tx, writer, csv_rows, icon_dir, icon_call>>

\* main(), lines 160-165: the overview reads the goals of the active save
\* and the page ends there when there are none (or the read raises, the
\* table being dropped)
main_overview(p) ==
  /\ pc[p] = "main_160"
  /\ IF \/ "lifetime_wishes" \notin db.tables
        \/ get_lifetime_wishes_with_progress(db, local[p].save_id) = <<>>
       THEN /\ pc' = [pc EXCEPT ![p] = "idle"]
            /\ local' = [local EXCEPT ![p] = NoCall]
       ELSE /\ pc' = [pc EXCEPT ![p] = "main_195"]
            /\ UNCHANGED local
  /\ UNCHANGED <<db, tx, writer, csv_rows, icon_dir, icon_call>>

\* main(), line 195: get_saves(); the read raises when the table has been
\* dropped, and the page ends there.  Of the rows read, what follows uses
\* the ids (the rest is drawn).
main_get_saves(p) ==
  /\ pc[p] = "main_195"
  /\ IF "saves" \notin db.tables
       THEN /\ pc' = [pc EXCEPT ![p] = "idle"]
            /\ local' = [local EXCEPT ![p] = NoCall]
       ELSE LET saves_df == get_saves(db)
            IN /\ pc' = [pc EXCEPT ![p] = "main_199"]
               /\ local' = [local EXCEPT ![p] =
                              [op |-> "main", save_id |-> local[p].save_id,
                               saves |-> { saves_df[k].id : k \in 1..Len(saves_df) }]]
  /\ UNCHANGED <<db, tx, writer, csv_rows, icon_dir, icon_call>>

\* main(), lines 199-207: the "Activate" button of a save read at line 195
\* was pressed
main_activate(p, save_id) ==
  /\ pc[p] = "main_199"
  /\ save_id \in local[p].saves
  /\ pc' = [pc EXCEPT ![p] = "main_208"]
  /\ local' = [local EXCEPT ![p] =
                 [op |-> "main", save_id |-> local[p].save_id, activate |-> save_id]]
  /\ UNCHANGED <<db, tx, writer, csv_rows, icon_dir, icon_call>>

\* main(), line 208: set_active_save(save['id']) has executed its first
\* UPDATE (line 94)
main_activate_clear(p) ==
  /\ pc[p] = "main_208"
  /\ "saves" \in db.tables
  /\ writer = 0
  /\ execute(p, update_saves_clear_active(db), "main_208_97")
  /\ UNCHANGED local

\* main(), line 208: the second UPDATE of set_active_save (line 97)
main_activate_set(p) ==
  /\ pc[p] = "main_208_97"
  /\ execute(p, update_saves_set_active(tx, local[p].activate), "main_208_99")
  /\ UNCHANGED local

\* main(), line 208: set_active_save commits (line 99) and returns
main_activate_commit(p) ==
  /\ pc[p] = "main_208_99"
  /\ writer = p
  /\ db' = tx
  /\ writer' = 0
  /\ pc' = [pc EXCEPT ![p] = "main_209"]
  /\ UNCHANGED <<tx, local, csv_rows, icon_dir, icon_call>>

\* main(), line 208: the first UPDATE raises sqlite3.OperationalError (no
\* such table: saves, or database is locked after the busy timeout); nothing
\* is written and the exception leaves main()
main_activate_raise(p) ==
  /\ pc[p] = "main_208"
  /\ "saves" \notin db.tables \/ writer # 0
  /\ pc' = [pc EXCEPT ![p] = "idle"]
  /\ local' = [local EXCEPT ![p] = NoCall]
  /\ UNCHANGED <<db, tx, writer, csv_rows, icon_dir, icon_call>>

\* main(), lines 215-228: the form was submitted with `name` and
\* `description`; a name of white space only is refused (line 228) and the
\* page goes on
main_create_save(p, name, description) ==
  /\ pc[p] = "main_199"
  /\ IF strip(name) = EmptyStr
       THEN /\ pc' = [pc EXCEPT ![p] = "main_234"]
            /\ local' = [local EXCEPT ![p] =
                           [op |-> "main", save_id |-> local[p].save_id]]
       ELSE /\ pc' = [pc EXCEPT ![p] = "main_222"]
            /\ local' = [local EXCEPT ![p] =
                           [op |-> "main", save_id |-> local[p].save_id,
                            name |-> strip(name),
                            description |-> strip(description)]]
  /\ UNCHANGED <<db, tx, writer, csv_rows, icon_dir, icon_call>>

\* main(), line 222: create_new_save(name, description) has executed its
\* INSERT (line 80), which succeeds or raises sqlite3.IntegrityError; the
\* exception is caught at line 225 while the connection of the call, never
\* closed, still holds the write lock
main_create_insert(p) ==
  /\ pc[p] = "main_222"
  /\ "saves" \in db.tables
  /\ writer = 0
  /\ IF saves_name_conflict(db, local[p].name)
       THEN execute(p, db, "main_225")
       ELSE /\ db.sqlite_sequence.saves < MaxSaves
            /\ execute(p, insert_save(db, local[p].name, local[p].description),
                        "main_222_85")
  /\ UNCHANGED local

\* main(), line 222: create_new_save commits (line 85) and returns
main_create_commit(p) ==
  /\ pc[p] = "main_222_85"
  /\ writer = p
  /\ db' = tx
  /\ writer' = 0
  /\ pc' = [pc EXCEPT ![p] = "main_224"]
  /\ UNCHANGED <<tx, local, csv_rows, icon_dir, icon_call>>

\* main(), lines 225-226: the exception of create_new_save is reported and
\* the page goes on. It is the IntegrityError (pc main_225), or the INSERT
\* raised sqlite3.OperationalError (no such table: saves, or database is
\* locked after the busy timeout) having taken no lock.
main_create_raise(p) ==
  /\ \/ pc[p] = "main_225"
     \/ pc[p] = "main_222" /\ ("saves" \notin db.tables \/ writer # 0)
  /\ pc' = [pc EXCEPT ![p] = "main_234"]
  /\ local' = [local EXCEPT ![p] = [op |-> "main", save_id |-> local[p].save_id]]
  /\ UNCHANGED <<db, tx, writer, csv_rows, icon_dir, icon_call>>

\* main(), lines 199-228: no button of the tab was pressed
main_saves_drawn(p) ==
  /\ pc[p] = "main_199"
  /\ pc' = [pc EXCEPT ![p] = "main_234"]
  /\ local' = [local EXCEPT ![p] = [op |-> "main", save_id |-> local[p].save_id]]
  /\ UNCHANGED <<db, tx, writer, csv_rows, icon_dir, icon_call>>

\* where a process stands while a connection of its call in progress has a
\* transaction open
TransactionPcs ==
  { "set_active_save_97", "set_active_save_99", "create_new_save_85",
    "create_new_save_raise", "update_lifetime_wish_progress_72",
    "load_lifetime_wishes_85", "load_lifetime_wishes_87",
    "load_lifetime_wishes_117", "main_208_97", "main_208_99", "main_222_85",
    "main_282_72", "main_305_72" }

\* The connection of the create_new_save that raised at line 222 is
\* finalized (it is unreachable once the handler of line 225 is over, and
\* freed when the interpreter collects it, which may be at any later
\* point): its transaction is rolled back and the write lock released.
\* Until then every write, the page's own included, waits for the lock.
connection_finalized(p) ==
  /\ writer = p
  /\ pc[p] \notin TransactionPcs
  /\ pc[p] # "main_225"
  /\ tx' = db
  /\ writer' = 0
  /\ UNCHANGED <<db, pc, local, csv_rows, icon_dir, icon_call>>

\* main(), lines 234-238: the goals are read again, for the save read at
\* line 146; the page ends there when there are none (or the read raises,
\* the table being dropped)
main_lifetime_wishes(p) ==
  /\ pc[p] = "main_234"
  /\ IF \/ "lifetime_wishes" \notin db.tables
        \/ get_lifetime_wishes_with_progress(db, local[p].save_id) = <<>>
       THEN /\ pc' = [pc EXCEPT ![p] = "idle"]
            /\ local' = [local EXCEPT ![p] = NoCall]
       ELSE /\ pc' = [pc EXCEPT ![p] = "main_269"]
            /\ local' = [local EXCEPT ![p] =
                           [op |-> "main", save_id |-> local[p].save_id,
                            df |-> get_lifetime_wishes_with_progress(db, local[p].save_id),
                            i |-> 1]]
  /\ UNCHANGED <<db, tx, writer, csv_rows, icon_dir, icon_call>>

\* main(), lines 269-281, the loop over the rows read at line 234 having
\* come to row i: the "Done" checkbox of row j differs from the row's
\* completed (the widgets of the rows from i to j are as their rows are, or
\* the filters of lines 254-260 leave those rows out)
main_checkbox_changed(p, j) ==
  /\ pc[p] = "main_269"
  /\ j \in local[p].i..Len(local[p].df)
  /\ LET wish == local[p].df[j]
     IN local' = [local EXCEPT ![p] =
                    [op |-> "main", save_id |-> local[p].save_id,
                     wish |-> wish, completed |-> ~ wish.completed]]
  /\ pc' = [pc EXCEPT ![p] = "main_282"]
  /\ UNCHANGED <<db, tx, writer, csv_rows, icon_dir, icon_call>>

\* wish['notes'] or ""
notes_or_empty(wish) == IF wish.notes = NULL THEN EmptyStr ELSE wish.notes

\* main(), lines 296-304: the checkbox of row j is as the row is and its
\* notes field holds `notes`, which differs from the row's
main_notes_changed(p, j, notes) ==
  /\ pc[p] = "main_269"
  /\ j \in local[p].i..Len(local[p].df)
  /\ notes # notes_or_empty(local[p].df[j])
  /\ local' = [local EXCEPT ![p] =
                 [op |-> "main", save_id |-> local[p].save_id,
                  df |-> local[p].df, i |-> j, notes |-> notes]]
  /\ pc' = [pc EXCEPT ![p] = "main_305"]
  /\ UNCHANGED <<db, tx, writer, csv_rows, icon_dir, icon_call>>

\* main(), from line 269: no widget of the rows left differs from its row;
\* the rest of the page (lines 311-352) reads and draws
main_return(p) ==
  /\ pc[p] = "main_269"
  /\ pc' = [pc EXCEPT ![p] = "idle"]
  /\ local' = [local EXCEPT ![p] = NoCall]
  /\ UNCHANGED <<db, tx, writer, csv_rows, icon_dir, icon_call>>

\* main(), line 282:
\* update_lifetime_wish_progress(active_save['id'], wish['id'], completed),
\* notes taking its default; the call has executed its INSERT OR REPLACE
\* (line 66)
main_update_progress(p, now) ==
  /\ pc[p] = "main_282"
  /\ writer = 0
  /\ db.sqlite_sequence.lifetime_wishes_progress < MaxProgressSeq
  /\ execute(p, insert_or_replace_progress(db, local[p].save_id, local[p].wish.id,
                                           local[p].completed,
                                           completed_date_of(local[p].completed, now),
                                           DefaultNotes),
              "main_282_72")
  /\ UNCHANGED local

\* main(), line 282: the call commits (line 72) and returns
main_update_progress_commit(p) ==
  /\ pc[p] = "main_282_72"
  /\ writer = p
  /\ db' = tx
  /\ writer' = 0
  /\ pc' = [pc EXCEPT ![p] = "main_283"]
  /\ UNCHANGED <<tx, local, csv_rows, icon_dir, icon_call>>

\* main(), lines 305-310:
\* update_lifetime_wish_progress(active_save['id'], wish['id'],
\*                               bool(wish['completed']), notes);
\* the call has executed its INSERT OR REPLACE (line 66)
main_update_notes(p, now) ==
  LET wish == local[p].df[local[p].i]
  IN /\ pc[p] = "main_305"
     /\ writer = 0
     /\ db.sqlite_sequence.lifetime_wishes_progress < MaxProgressSeq
     /\ execute(p, insert_or_replace_progress(db, local[p].save_id, wish.id,
                                              wish.completed,
                                              completed_date_of(wish.completed, now),
                                              local[p].notes),
                 "main_305_72")
     /\ UNCHANGED local

\* main(), lines 305-310: the call commits (line 72) and returns; the loop
\* goes on with the next row
main_update_notes_commit(p) ==
  /\ pc[p] = "main_305_72"
  /\ writer = p
  /\ db' = tx
  /\ writer' = 0
  /\ pc' = [pc EXCEPT ![p] = "main_269"]
  /\ local' = [local EXCEPT ![p] =
                 [op |-> "main", save_id |-> local[p].save_id,
                  df |-> local[p].df, i |-> local[p].i + 1]]
  /\ UNCHANGED <<tx, csv_rows, icon_dir, icon_call>>

\* main(), line 282 or 305, the write lock being held by another connection
\* until the busy timeout: sqlite3.OperationalError (database is locked)
\* leaves main(), nothing is written
main_update_locked(p) ==
  /\ pc[p] \in {"main_282", "main_305"}
  /\ writer # 0
  /\ pc' = [pc EXCEPT ![p] = "idle"]
  /\ local' = [local EXCEPT ![p] = NoCall]
  /\ UNCHANGED <<db, tx, writer, csv_rows, icon_dir, icon_call>>

\* main(), lines 209, 224 and 283: st.experimental_rerun()
main_rerun(p) ==
  /\ pc[p] \in {"main_209", "main_224", "main_283"}
  /\ pc' = [pc EXCEPT ![p] = "idle"]
  /\ local' = [local EXCEPT ![p] = NoCall]
  /\ UNCHANGED <<db, tx, writer, csv_rows, icon_dir, icon_call>>

\* what the user may type in the "Save Name" field
FormNames == SaveNames \cup { Alpha \o <<" ">>, <<" ">> }

\* the page
PageSteps ==
  \/ \E p \in Procs : main_get_active_save(p)
  \/ \E p \in Procs : main_overview(p)
  \/ \E p \in Procs : main_get_saves(p)
  \/ \E p \in Procs, save_id \in SaveIds : main_activate(p, save_id)
  \/ \E p \in Procs : main_activate_clear(p)
  \/ \E p \in Procs : main_activate_set(p)
  \/ \E p \in Procs : main_activate_commit(p)
  \/ \E p \in Procs : main_activate_raise(p)
  \/ \E p \in Procs, name \in FormNames, description \in Descriptions :
       main_create_save(p, name, description)
  \/ \E p \in Procs : main_create_insert(p)
  \/ \E p \in Procs : main_create_commit(p)
  \/ \E p \in Procs : main_create_raise(p)
  \/ \E p \in Procs : main_saves_drawn(p)
  \/ \E p \in Procs : connection_finalized(p)
  \/ \E p \in Procs : main_lifetime_wishes(p)
  \/ \E p \in Procs, j \in 1..MaxWishSeq : main_checkbox_changed(p, j)
  \/ \E p \in Procs, j \in 1..MaxWishSeq, notes \in NotesValues :
       main_notes_changed(p, j, notes)
  \/ \E p \in Procs : main_return(p)
  \/ \E p \in Procs, now \in Dates : main_update_progress(p, now)
  \/ \E p \in Procs : main_update_progress_commit(p)
  \/ \E p \in Procs, now \in Dates : main_update_notes(p, now)
  \/ \E p \in Procs : main_update_notes_commit(p)
  \/ \E p \in Procs : main_update_locked(p)
  \/ \E p \in Procs : main_rerun(p)

\* every operation of the three programs
Next == SaveSteps \/ ProgressSteps \/ LoaderSteps \/ DatabaseSteps \/ PageSteps

Spec == Init /\ [][Next]_vars

\* the names typed while the progress page is in use: that of the default
\* save, a new one, and none
PageFormNames == { MyMainSave, Alpha \o <<" ">>, <<" ">> }

\* the process whose session has the page open; the others run the loader
\* and call update_lifetime_wish_progress themselves
PageProcs == {1}

\* one page over loaded goals: reloads from a file that exists, upserts made
\* by other callers and every path of the page, on a single day
ProgressPageNext ==
  \/ \E p \in Procs : load_lifetime_wishes_delete(p)
  \/ \E p \in Procs, rows \in PageCsvFiles : load_lifetime_wishes_insert(p, rows)
  \/ \E p \in Procs : load_lifetime_wishes_commit(p)
  \/ \E p \in Procs, save_id \in SaveIds, lifetime_wish_id \in WishIds,
        completed \in BOOLEAN, notes \in NotesValues :
       update_lifetime_wish_progress_insert(p, save_id, lifetime_wish_id,
                                            completed, notes, 1)
  \/ \E p \in Procs : update_lifetime_wish_progress_commit(p)
  \/ \E p \in PageProcs : main_get_active_save(p)
  \/ \E p \in PageProcs : main_overview(p)
  \/ \E p \in PageProcs : main_get_saves(p)
  \/ \E p \in PageProcs, save_id \in SaveIds : main_activate(p, save_id)
  \/ \E p \in PageProcs : main_activate_clear(p)
  \/ \E p \in PageProcs : main_activate_set(p)
  \/ \E p \in PageProcs : main_activate_commit(p)
  \/ \E p \in PageProcs : main_activate_raise(p)
  \/ \E p \in PageProcs, name \in PageFormNames, description \in {EmptyStr} :
       main_create_save(p, name, description)
  \/ \E p \in PageProcs : main_create_insert(p)
  \/ \E p \in PageProcs : main_create_commit(p)
  \/ \E p \in PageProcs : main_create_raise(p)
  \/ \E p \in PageProcs : main_saves_drawn(p)
  \/ \E p \in PageProcs : connection_finalized(p)
  \/ \E p \in PageProcs : main_lifetime_wishes(p)
  \/ \E p \in PageProcs, j \in 1..MaxWishSeq : main_checkbox_changed(p, j)
  \/ \E p \in PageProcs, j \in 1..MaxWishSeq, notes \in NotesValues :
       main_notes_changed(p, j, notes)
  \/ \E p \in PageProcs : main_return(p)
  \/ \E p \in PageProcs : main_update_progress(p, 1)
  \/ \E p \in PageProcs : main_update_progress_commit(p)
  \/ \E p \in PageProcs : main_update_notes(p, 1)
  \/ \E p \in PageProcs : main_update_notes_commit(p)
  \/ \E p \in PageProcs : main_update_locked(p)
  \/ \E p \in PageProcs : main_rerun(p)

SpecProgressPage == Init /\ [][ProgressPageNext]_vars

\* table `new` is table `old` with the row of (save_id, lifetime_wish_id)
\* replaced by a new row with the call's values, the rows of every other pair
\* being as they were
Replaced(old, new, save_id, lifetime_wish_id, completed, notes) ==
  /\ \E r \in new :
       /\ RowsFor(new, save_id, lifetime_wish_id) = {r}
       /\ r.notes = notes
       /\ r.completed = completed
       /\ r.id \notin { o.id : o \in old }
  /\ new \ RowsFor(new, save_id, lifetime_wish_id)
       = old \ RowsFor(old, save_id, lifetime_wish_id)

\* C14: update_lifetime_wish_progress replaces the whole progress row and
\* retains nothing of the prior row: the stored notes are the notes argument,
\* and when the argument is left out, as by the completion checkbox, the
\* stored notes are empty whatever notes the pair had; the rows of every
\* other (save, goal) pair are unchanged.
C14_UpsertReplacesRow ==
  [][ /\ \A p \in Procs :
           update_lifetime_wish_progress_commit(p) =>
             Replaced(db.lifetime_wishes_progress, db'.lifetime_wishes_progress,
                      local[p].save_id, local[p].lifetime_wish_id,
                      local[p].completed, local[p].notes)
      /\ \A p \in Procs :
           main_update_progress_commit(p) =>
             Replaced(db.lifetime_wishes_progress, db'.lifetime_wishes_progress,
                      local[p].save_id, local[p].wish.id, local[p].completed,
                      EmptyStr)
      /\ \A p \in Procs :
           main_update_notes_commit(p) =>
             Replaced(db.lifetime_wishes_progress, db'.lifetime_wishes_progress,
                      local[p].save_id, local[p].df[local[p].i].id,
                      local[p].df[local[p].i].completed, local[p].notes)
    ]_vars

\* witness: the page showed a goal with non-empty notes, its checkbox was
\* changed, and the pair's row now holds empty notes
C14_Witness ==
  \E p \in Procs :
    /\ pc[p] = "main_283"
    /\ local[p].wish.notes = <<"o", "k">>
    /\ \E r \in RowsFor(db.lifetime_wishes_progress, local[p].save_id, local[p].wish.id) :
         r.notes = EmptyStr /\ r.completed = local[p].completed

====
